---- MODULE Spec2Model ----
(***************************************************************************)
(* video2text: the caption serializers of TranscriptionResult, the job     *)
(* registry of the FastAPI server (src/video2text/api.py) and the          *)
(* file-based status endpoint of the older backend (src/backend/main.py).  *)
(*                                                                         *)
(* Text is modelled as a sequence of one-character strings, so that        *)
(* formatting, stripping, joining and parsing are computed and not         *)
(* assumed.  A path is a sequence of path tokens.                          *)
(***************************************************************************)
EXTENDS Integers, Sequences, FiniteSets, TLC

VARIABLES
    res,                \* the TranscriptionResult handed to OutputWriter
    out,                \* what OutputWriter.write_result wrote (None before)
    transcription_jobs, \* api.py: the global job registry
    tasks,              \* api.py: the background task of each job
    files,              \* the file system: the set of existing paths
    config,             \* config.py: the global AppConfig (the settings used here)
    b_tasks,            \* backend/main.py: the background task of each job
    b_files,            \* backend/main.py: the files in RESULTS_DIR
    f_req,              \* web_app.py: the /process request being handled
    f_files,            \* web_app.py: the files in RESULTS_FOLDER
    arg,                \* the argument of a function applied on its own
    ret                 \* what that function returned (None before)

fmtVars == <<res, out>>

apiVars == <<transcription_jobs, tasks, files, config>>

backendVars == <<b_tasks, b_files>>

flaskVars == <<f_req, f_files>>

fnVars == <<arg, ret>>

vars == <<fmtVars, apiVars, backendVars, flaskVars, fnVars>>

\* the variables of the other programs, which a step of one program leaves alone
notFmt == <<apiVars, backendVars, flaskVars, fnVars>>

notApi == <<fmtVars, backendVars, flaskVars, fnVars>>

notBackend == <<fmtVars, apiVars, flaskVars, fnVars>>

notFlask == <<fmtVars, apiVars, backendVars, fnVars>>

notFn == <<fmtVars, apiVars, backendVars, flaskVars>>

None == "None"

(***************************************************************************)
(* Text helpers (Python str operations on character sequences)             *)
(***************************************************************************)
NL == "\n"

Whitespace == {" ", NL, "\t"}

DIGITS == <<"0", "1", "2", "3", "4", "5", "6", "7", "8", "9">>

\* str(n) for a non-negative integer: its decimal digits
RECURSIVE Decimal(_)
Decimal(n) ==
    IF n < 10 THEN <<DIGITS[n + 1]>>
    ELSE Decimal(n \div 10) \o <<DIGITS[(n % 10) + 1]>>

\* f"{n:0wd}": decimal digits, left-padded with zeros to width w at least
ZeroPad(n, w) ==
    LET d == Decimal(n)
    IN  IF Len(d) >= w THEN d ELSE [i \in 1..(w - Len(d)) |-> "0"] \o d

\* str.lstrip / str.rstrip / str.strip
RECURSIVE lstrip(_)
lstrip(s) ==
    IF s # <<>> /\ Head(s) \in Whitespace THEN lstrip(Tail(s)) ELSE s

RECURSIVE rstrip(_)
rstrip(s) ==
    IF s # <<>> /\ s[Len(s)] \in Whitespace
    THEN rstrip(SubSeq(s, 1, Len(s) - 1)) ELSE s

strip(s) == rstrip(lstrip(s))

\* sep.join(lines)
RECURSIVE Join(_, _)
Join(lines, sep) ==
    IF lines = <<>> THEN <<>>
    ELSE IF Len(lines) = 1 THEN lines[1]
    ELSE lines[1] \o sep \o Join(Tail(lines), sep)

(***************************************************************************)
(* TranscriptionResult and its serializations (transcriber.py)             *)
(*                                                                         *)
(* A time is a float number of seconds in the source; here it is a whole   *)
(* number of ticks of half a millisecond, so times between two             *)
(* milliseconds exist and the truncation to milliseconds is computed.      *)
(* The arithmetic is exact: the rounding of binary floating point, which   *)
(* can lower the printed millisecond by one, is not modelled.              *)
(***************************************************************************)
TicksPerSecond == 2 * 1000

Seconds(n) == n * TicksPerSecond

\* TranscriptionResult._format_time: HH:MM:SS,mmm
_format_time(seconds) ==
    LET hours     == seconds \div Seconds(3600)
        minutes   == (seconds % Seconds(3600)) \div Seconds(60)
        secs      == (seconds % Seconds(60)) \div Seconds(1)
        millisecs == ((seconds % Seconds(1)) * 1000) \div Seconds(1)
    IN  ZeroPad(hours, 2) \o <<":">> \o ZeroPad(minutes, 2) \o <<":">>
            \o ZeroPad(secs, 2) \o <<",">> \o ZeroPad(millisecs, 3)

\* TranscriptionResult._format_time_vtt: HH:MM:SS.mmm
_format_time_vtt(seconds) ==
    LET hours     == seconds \div Seconds(3600)
        minutes   == (seconds % Seconds(3600)) \div Seconds(60)
        secs      == (seconds % Seconds(60)) \div Seconds(1)
        millisecs == ((seconds % Seconds(1)) * 1000) \div Seconds(1)
    IN  ZeroPad(hours, 2) \o <<":">> \o ZeroPad(minutes, 2) \o <<":">>
            \o ZeroPad(secs, 2) \o <<".">> \o ZeroPad(millisecs, 3)

ARROW == <<" ", "-", "-", ">", " ">>

\* to_srt with enumerate(self.segments) counting from 0
SrtCueLines_ZeroBased(i, segment) ==
    << Decimal(i - 1),
       _format_time(segment.start) \o ARROW \o _format_time(segment.end),
       strip(segment.text), <<>> >>

\* the four lines to_srt appends for segment number i
SrtCueLines(i, segment) ==
    LET start_time == _format_time(segment.start)
        end_time   == _format_time(segment.end)
        text       == strip(segment.text)
    IN  << Decimal(i), start_time \o ARROW \o end_time, text, <<>> >>

\* the loop of to_srt over segments i..N: the list srt_content
RECURSIVE SrtContent(_, _)
SrtContent(segments, i) ==
    IF i > Len(segments) THEN <<>>
    ELSE SrtCueLines(i, segments[i]) \o SrtContent(segments, i + 1)

\* TranscriptionResult.to_srt
to_srt(r) == Join(SrtContent(r.segments, 1), <<NL>>)

\* to_vtt without the .strip() of the segment's text
VttCueLines_NoStrip(segment) ==
    << _format_time_vtt(segment.start) \o ARROW \o _format_time_vtt(segment.end),
       segment.text, <<>> >>

\* the three lines to_vtt appends for one segment
VttCueLines(segment) ==
    LET start_time == _format_time_vtt(segment.start)
        end_time   == _format_time_vtt(segment.end)
        text       == strip(segment.text)
    IN  << start_time \o ARROW \o end_time, text, <<>> >>

RECURSIVE VttContent(_, _)
VttContent(segments, i) ==
    IF i > Len(segments) THEN <<>>
    ELSE VttCueLines(segments[i]) \o VttContent(segments, i + 1)

WEBVTT == <<"W", "E", "B", "V", "T", "T">>

\* TranscriptionResult.to_vtt
to_vtt(r) == Join(<<WEBVTT, <<>> >> \o VttContent(r.segments, 1), <<NL>>)

\* TranscriptionResult.to_dict
to_dict(r) ==
    [text |-> r.text, segments |-> r.segments, language |-> r.language,
     metadata |-> r.metadata]

\* OutputFormat
OutputFormat == {"txt", "srt", "json", "vtt"}

\* write_result writing result.text.strip() for the plain-text format
WriteContent_StripsText(r, format) ==
    CASE format = "txt"  -> strip(r.text)
      [] format = "srt"  -> to_srt(r)
      [] format = "vtt"  -> to_vtt(r)
      [] format = "json" -> to_dict(r)

\* The content OutputWriter.write_result writes for a format.  json.dumps is
\* kept as the record it serializes (no claim reads the JSON text).
WriteContent(r, format) ==
    CASE format = "txt"  -> r.text
      [] format = "srt"  -> to_srt(r)
      [] format = "vtt"  -> to_vtt(r)
      [] format = "json" -> to_dict(r)


\* a path is a sequence of tokens; Path.suffix is non-empty when the last
\* component ends in "." ext
HasSuffix(path) == Len(path) >= 2 /\ path[Len(path) - 1] = "."

with_suffix(path, format) == path \o <<".", format>>

\* OutputWriter.write_result, the successful path: the file it writes
write_result(r, output_path, format) ==
    LET output_file == IF HasSuffix(output_path) THEN output_path
                       ELSE with_suffix(output_path, format)
    IN  [path |-> output_file, content |-> WriteContent(r, format)]

(***************************************************************************)
(* The serializer specification: a result as Whisper returns it (segments  *)
(* in time order, each ending before the next starts) is written in one    *)
(* format after another, as OutputWriter.write_multiple_formats does.      *)
(***************************************************************************)
MaxSegs == 2

Texts ==
    { <<"H", "i">>,                 \* plain
      <<" ", "H", "i", " ">>,       \* Whisper's usual leading space
      <<"a", NL, NL, "b">> }        \* a blank line inside the text

\* (start, end) in ticks; the last two start within the same millisecond
TimeSpans ==
    << <<0, Seconds(5)>>,
       <<Seconds(5), Seconds(10)>>,
       <<Seconds(10), Seconds(3661) + 2>>,
       <<Seconds(3661) + 3, Seconds(3661) + 3>> >>

Segments ==
    { [start |-> TimeSpans[k][1], end |-> TimeSpans[k][2], text |-> t] :
        k \in DOMAIN TimeSpans, t \in Texts }

InTimeOrder(segments) ==
    \A i \in 1..Len(segments) :
        /\ segments[i].start <= segments[i].end
        /\ i < Len(segments) => segments[i].end <= segments[i + 1].start

SegmentLists ==
    UNION { { s \in [1..n -> Segments] : InTimeOrder(s) } : n \in 0..MaxSegs }

Results ==
    { [text |-> t, segments |-> s, language |-> "en", metadata |-> "base"] :
        t \in { <<"H", "i">>, <<" ", "H", "i", NL>> }, s \in SegmentLists }

NoResult == [text |-> <<>>, segments |-> <<>>, language |-> None, metadata |-> None]

ApiIdle ==
    /\ transcription_jobs = <<>>
    /\ tasks = <<>>
    /\ files = {}
    /\ config = <<>>

BackendIdle ==
    /\ b_tasks = <<>>
    /\ b_files = <<>>

FmtIdle ==
    /\ res = NoResult
    /\ out = <<>>

FlaskIdle ==
    /\ f_req = <<>>
    /\ f_files = <<>>

FnIdle ==
    /\ arg = <<>>
    /\ ret = <<>>

FmtInit ==
    /\ res \in Results
    /\ out = <<>>
    /\ ApiIdle
    /\ BackendIdle
    /\ FlaskIdle
    /\ FnIdle

\* OutputWriter.write_result(res, <base>.<format>, format)
WriteResult(format) ==
    /\ format \notin DOMAIN out
    /\ out' = [f \in DOMAIN out \cup {format} |->
                 IF f = format
                 THEN write_result(res, <<"out", ".", format>>, format).content
                 ELSE out[f]]
    /\ UNCHANGED <<res, notFmt>>

FmtNext == \E format \in OutputFormat : WriteResult(format)

FmtSpec == FmtInit /\ [][FmtNext]_vars


(***************************************************************************)
(* Reading written content back (used by the properties only)              *)
(***************************************************************************)
Range(s) == { s[i] : i \in DOMAIN s }

\* str.split("\n")
RECURSIVE SplitLines(_)
SplitLines(s) ==
    IF NL \notin Range(s) THEN <<s>>
    ELSE LET k == CHOOSE k \in 1..Len(s) :
                      s[k] = NL /\ \A j \in 1..(k - 1) : s[j] # NL
         IN  <<SubSeq(s, 1, k - 1)>> \o SplitLines(SubSeq(s, k + 1, Len(s)))

DigitSet == Range(DIGITS)

DigitVal(c) == CHOOSE d \in 0..9 : DIGITS[d + 1] = c

\* a timestamp HH:MM:SS<punct>mmm
StampShape(s, punct) ==
    /\ Len(s) = 12
    /\ s[3] = ":" /\ s[6] = ":" /\ s[9] = punct
    /\ \A i \in {1, 2, 4, 5, 7, 8, 10, 11, 12} : s[i] \in DigitSet

\* the milliseconds a timestamp of that shape denotes
StampMs(s) ==
    LET two(i) == 10 * DigitVal(s[i]) + DigitVal(s[i + 1])
    IN  ((two(1) * 60 + two(4)) * 60 + two(7)) * 1000
            + 100 * DigitVal(s[10]) + two(11)

\* a line "<stamp> --> <stamp>"
TimeLineShape(line, punct) ==
    /\ Len(line) = 29
    /\ StampShape(SubSeq(line, 1, 12), punct)
    /\ SubSeq(line, 13, 17) = ARROW
    /\ StampShape(SubSeq(line, 18, 29), punct)

\* a time in ticks, truncated to whole milliseconds
TruncMs(t) == t \div (TicksPerSecond \div 1000)

\* Walks SRT content cue by cue against the segments: cue i must be the line
\* str(i), a time line, the text (stripped or verbatim) and an empty line.
\* Returns whether the whole content matches, and the time lines met.
RECURSIVE SrtWalk(_, _, _, _)
SrtWalk(c, segs, i, stripped) ==
    IF i > Len(segs) THEN [ok |-> c = <<>>, lines |-> <<>>]
    ELSE
      LET num   == Decimal(i)
          txt   == IF stripped THEN strip(segs[i].text) ELSE segs[i].text
          a     == Len(num)
          total == a + 1 + 29 + 1 + Len(txt) + 1
          sep   == IF i < Len(segs) THEN 1 ELSE 0
          here  == /\ Len(c) >= total + sep
                   /\ SubSeq(c, 1, a) = num
                   /\ c[a + 1] = NL
                   /\ TimeLineShape(SubSeq(c, a + 2, a + 30), ",")
                   /\ c[a + 31] = NL
                   /\ SubSeq(c, a + 32, a + 31 + Len(txt)) = txt
                   /\ c[total] = NL
                   /\ sep = 1 => c[total + 1] = NL
          rest  == IF here
                   THEN SrtWalk(SubSeq(c, total + sep + 1, Len(c)), segs, i + 1, stripped)
                   ELSE [ok |-> FALSE, lines |-> <<>>]
      IN  [ok    |-> here /\ rest.ok,
           lines |-> IF here THEN <<SubSeq(c, a + 2, a + 30)>> \o rest.lines
                     ELSE <<>>]

\* the time lines state the segments' times, truncated to milliseconds
TimeLinesOf(lines, segs) ==
    /\ Len(lines) = Len(segs)
    /\ \A i \in 1..Len(segs) :
          /\ StampMs(SubSeq(lines[i], 1, 12)) = TruncMs(segs[i].start)
          /\ StampMs(SubSeq(lines[i], 18, 29)) = TruncMs(segs[i].end)

IsExample(segs) ==
    /\ Len(segs) = 2
    /\ segs[1].start = 0 /\ segs[1].end = Seconds(5)
    /\ segs[2].start = Seconds(5) /\ segs[2].end = Seconds(10)

ExampleTimeLines ==
    << <<"0", "0", ":", "0", "0", ":", "0", "0", ",", "0", "0", "0", " ", "-", "-", ">", " ", "0", "0", ":", "0", "0", ":", "0", "5", ",", "0", "0", "0">>,
       <<"0", "0", ":", "0", "0", ":", "0", "5", ",", "0", "0", "0", " ", "-", "-", ">", " ", "0", "0", ":", "0", "0", ":", "1", "0", ",", "0", "0", "0">> >>

SrtAsClaimed(stripped) ==
    "srt" \in DOMAIN out =>
        LET w == SrtWalk(out["srt"], res.segments, 1, stripped)
        IN  /\ w.ok
            /\ TimeLinesOf(w.lines, res.segments)
            /\ IsExample(res.segments) => w.lines = ExampleTimeLines

\* C8 as stated: the SRT output of a result with N segments is exactly N cues
\* in segment order, cue i being the number i, the line "<start> --> <end>"
\* with both times as HH:MM:SS,mmm, and the segment's text as it is; segments
\* (0.0,5.0) and (5.0,10.0) give "00:00:00,000 --> 00:00:05,000" and
\* "00:00:05,000 --> 00:00:10,000".
C8_SrtCuesVerbatim == SrtAsClaimed(FALSE)

\* C8 amended: as above, but each cue carries the segment's text with its
\* leading and trailing whitespace stripped.
C8_SrtCues == SrtAsClaimed(TRUE)

C8_Witness ==
    /\ "srt" \in DOMAIN out
    /\ IsExample(res.segments)
    /\ \E i \in 1..2 : strip(res.segments[i].text) # res.segments[i].text

\* drops the header line and the empty line after it
DropVttHeader(lines) ==
    IF Len(lines) >= 2 /\ lines[1] = WEBVTT /\ lines[2] = <<>>
    THEN SubSeq(lines, 3, Len(lines)) ELSE lines

\* a WebVTT time line with the dot before the milliseconds made a comma
DotToComma(line) ==
    IF TimeLineShape(line, ".")
    THEN [i \in 1..Len(line) |-> IF i \in {9, 26} THEN "," ELSE line[i]]
    ELSE line

VttAsSrtLines(content) ==
    LET body == DropVttHeader(SplitLines(content))
    IN  [i \in 1..Len(body) |-> DotToComma(body[i])]

\* puts the line str(k) before the k-th time line
RECURSIVE NumberCues(_, _)
NumberCues(lines, k) ==
    IF lines = <<>> THEN <<>>
    ELSE IF TimeLineShape(Head(lines), ",")
         THEN <<Decimal(k), Head(lines)>> \o NumberCues(Tail(lines), k + 1)
         ELSE <<Head(lines)>> \o NumberCues(Tail(lines), k)

\* C9 as stated: the WebVTT output with its header removed and the timestamp
\* punctuation replaced is the SRT output.
C9_VttIsSrtButHeader ==
    {"srt", "vtt"} \subseteq DOMAIN out =>
        Join(VttAsSrtLines(out["vtt"]), <<NL>>) = out["srt"]

\* C9 amended: SRT and WebVTT differ in the timestamp punctuation, in the
\* WebVTT header and in the cue numbers that only SRT carries: the WebVTT
\* output with its header removed, the punctuation replaced and the cues
\* numbered from 1 is the SRT output.
C9_VttIsSrtButHeaderAndNumbers ==
    {"srt", "vtt"} \subseteq DOMAIN out =>
        Join(NumberCues(VttAsSrtLines(out["vtt"]), 1), <<NL>>) = out["srt"]

C9_Witness ==
    /\ {"srt", "vtt"} \subseteq DOMAIN out
    /\ Len(res.segments) = 2

\* maximal runs of non-empty lines
RECURSIVE Blocks(_, _)
Blocks(lines, cur) ==
    IF lines = <<>> THEN (IF cur = <<>> THEN <<>> ELSE <<cur>>)
    ELSE IF Head(lines) = <<>>
         THEN (IF cur = <<>> THEN <<>> ELSE <<cur>>) \o Blocks(Tail(lines), <<>>)
         ELSE Blocks(Tail(lines), Append(cur, Head(lines)))

\* one block of a caption file as a cue; a block without a time line where
\* the format wants it reads as a cue with no times
ReadCue(block, format) ==
    LET at    == IF format = "srt" THEN 2 ELSE 1
        punct == IF format = "srt" THEN "," ELSE "."
    IN  IF Len(block) >= at /\ TimeLineShape(block[at], punct)
        THEN [start |-> StampMs(SubSeq(block[at], 1, 12)),
              end   |-> StampMs(SubSeq(block[at], 18, 29)),
              text  |-> Join(SubSeq(block, at + 1, Len(block)), <<NL>>)]
        ELSE [start |-> -1, end |-> -1, text |-> Join(block, <<NL>>)]

\* reads a caption file back: its cues in file order
ReadCaption(content, format) ==
    LET lines  == IF format = "vtt" THEN DropVttHeader(SplitLines(content))
                  ELSE SplitLines(content)
        blocks == Blocks(lines, <<>>)
    IN  [i \in 1..Len(blocks) |-> ReadCue(blocks[i], format)]

Monotonic(cues) ==
    \A i \in 1..Len(cues) :
        /\ 0 <= cues[i].start
        /\ cues[i].start <= cues[i].end
        /\ i < Len(cues) => cues[i].end <= cues[i + 1].start

NoBlankLine(text) ==
    text = <<>> \/ \A l \in Range(SplitLines(text)) : l # <<>>

Captions == {"srt", "vtt"}

\* C10 as stated: read back, the plain-text output is the result's text, and
\* a caption output gives every segment's text, in order, with monotonic
\* non-overlapping timestamps.
C10_RoundTripVerbatim ==
    /\ "txt" \in DOMAIN out => out["txt"] = res.text
    /\ \A format \in Captions \cap DOMAIN out :
          LET cues == ReadCaption(out[format], format)
          IN  /\ Len(cues) = Len(res.segments)
              /\ \A i \in 1..Len(cues) : cues[i].text = res.segments[i].text
              /\ Monotonic(cues)

\* C10 amended: the plain-text output is the result's text; a caption output
\* gives every segment's text with leading and trailing whitespace stripped,
\* in order, with monotonic non-overlapping timestamps, when no stripped text
\* holds a blank line.
C10_RoundTrip ==
    /\ "txt" \in DOMAIN out => out["txt"] = res.text
    /\ \A format \in Captions \cap DOMAIN out :
          (\A i \in 1..Len(res.segments) : NoBlankLine(strip(res.segments[i].text)))
          => LET cues == ReadCaption(out[format], format)
             IN  /\ Len(cues) = Len(res.segments)
                 /\ \A i \in 1..Len(cues) :
                       cues[i].text = strip(res.segments[i].text)
                 /\ Monotonic(cues)

C10_Witness ==
    /\ {"txt", "srt", "vtt"} \subseteq DOMAIN out
    /\ Len(res.segments) = 2
    /\ strip(res.text) # res.text
    /\ \A i \in 1..2 : NoBlankLine(strip(res.segments[i].text))
    /\ \E i \in 1..2 : strip(res.segments[i].text) # res.segments[i].text


(***************************************************************************)
(* The API server (src/video2text/api.py): the job registry, the request   *)
(* handlers and the two background tasks.                                  *)
(*                                                                         *)
(* An optional value is None (the empty sequence) or Some(x).  A handler   *)
(* runs on the event loop without awaiting, so it is one step; a           *)
(* background task is one step per stretch between the awaits of           *)
(* asyncio.to_thread and per external call inside the worker thread, so    *)
(* the tasks of different jobs interleave as threads do.                   *)
(***************************************************************************)
Some(x) == <<x>>

Put(f, k, v) == [x \in DOMAIN f \cup {k} |-> IF x = k THEN v ELSE f[x]]

MaxJobs == 2

UUIDS == <<"id-a", "id-b", "id-c", "id-d">>

\* an identifier that is the same for every request
uuid4_Fixed == UUIDS[1]

\* uuid.uuid4(): an identifier no job has had
uuid4 == UUIDS[Cardinality(DOMAIN transcription_jobs) + 1]

JobIds == { UUIDS[i] : i \in 1..(MaxJobs + 1) }

\* datetime.now(): the value read is not modelled, only that there is one
Now == "now"

\* what a client may send
Urls == {"lecture"}

Filenames == { <<"clip", ".", "mp4">> }

RequestFormats == {"srt"}

LogLevels == {"INFO", "DEBUG"}

\* AppConfig(): the defaults of the settings used here
DefaultConfig == [temp_dir |-> <<"temp">>, log_level |-> "INFO"]

\* what Whisper may return for an audio file
WhisperOutputs ==
    { [text |-> <<"H", "i">>, language |-> "en",
       segments |-> <<[start |-> 0, end |-> Seconds(5), text |-> <<" ", "H", "i">>]>>],
      [text |-> <<"N", "i">>, language |-> "zh",
       segments |-> <<[start |-> 0, end |-> Seconds(5), text |-> <<" ", "N", "i">>]>>] }

\* str(e) of the exceptions the steps raise
E_DOWNLOAD == "yt-dlp: download failed"
E_NOT_DOWNLOADED == "Downloaded file not found in downloads"
E_FFMPEG == "ffmpeg error"
E_MODEL == "failed to load Whisper model"
E_AUDIO_NOT_FOUND == "Audio file not found"
E_FILE_NOT_FOUND == "File not found"
E_WHISPER == "transcription failed"
E_WRITE == "failed to write output"

\* the entry transcribe_url / transcribe_file put in the registry
NewJob(job_id, message) ==
    [job_id |-> job_id, status |-> "pending", message |-> message,
     created_at |-> Some(Now), completed_at |-> <<>>, result |-> <<>>,
     download_url |-> <<>>]

\* the arguments and local variables of a background task; attempted holds
\* the paths os.remove was called on
NewTask(kind, url, file_path, format) ==
    [kind |-> kind, pc |-> "queued", url |-> url, file_path |-> file_path,
     format |-> format, video_path |-> <<>>, audio_path |-> <<>>,
     result |-> <<>>, output_path |-> <<>>, raised |-> <<>>, attempted |-> {}]

\* a task that updates the message and leaves the status as it was
MarkProcessing_KeepsStatus(jobs, job_id, message) ==
    [jobs EXCEPT ![job_id].message = message]

\* api.py:430-431 / 467-468
MarkProcessing(jobs, job_id, message) ==
    [jobs EXCEPT ![job_id].status = "processing", ![job_id].message = message]

\* api.py:474
SetMessage(jobs, job_id, message) ==
    [jobs EXCEPT ![job_id].message = message]

\* the completion update without the download link
MarkCompleted_NoLink(jobs, job_id, result) ==
    [jobs EXCEPT ![job_id] =
        [@ EXCEPT !.status = "completed",
                  !.message = "Transcription completed successfully",
                  !.completed_at = Some(Now),
                  !.result = Some(to_dict(result))]]

\* the completion update without the status
MarkCompleted_NoStatus(jobs, job_id, result) ==
    [jobs EXCEPT ![job_id] =
        [@ EXCEPT !.message = "Transcription completed successfully",
                  !.completed_at = Some(Now),
                  !.result = Some(to_dict(result)),
                  !.download_url = <<"/download/", job_id>>]]

\* api.py:446-452 / 487-493
MarkCompleted(jobs, job_id, result) ==
    [jobs EXCEPT ![job_id] =
        [@ EXCEPT !.status = "completed",
                  !.message = "Transcription completed successfully",
                  !.completed_at = Some(Now),
                  !.result = Some(to_dict(result)),
                  !.download_url = <<"/download/", job_id>>]]

\* an except clause that stores a fixed message instead of str(e)
MarkFailed_FixedMessage(jobs, job_id, e) ==
    [jobs EXCEPT ![job_id] =
        [@ EXCEPT !.status = "failed", !.message = "Transcription failed",
                  !.completed_at = Some(Now)]]

\* an except clause that deletes the failed job from the registry
MarkFailed_DropsEntry(jobs, job_id, e) ==
    [j \in DOMAIN jobs \ {job_id} |-> jobs[j]]

\* api.py:454-460 / 503-509: the except clause of a background task
MarkFailed(jobs, job_id, e) ==
    [jobs EXCEPT ![job_id] =
        [@ EXCEPT !.status = "failed", !.message = e, !.completed_at = Some(Now)]]

\* a step of job_id's task raises e: the except clause runs and the task ends
Raise(job_id, e) ==
    /\ transcription_jobs' = MarkFailed(transcription_jobs, job_id, e)
    /\ tasks' = [tasks EXCEPT ![job_id].pc = "done", ![job_id].raised = Some(e)]

\* paths
DownloadDir == <<"downloads">>

AudioFormat == "mp3"

VideoExtensions == <<"mp4", "mkv", "avi", "webm", "mov">>

AudioExtensions == {"mp3", "wav", "flac", "aac", "ogg", "m4a"}

JoinPath(dir, name) == dir \o <<"/">> \o name

\* parent / f"{stem}.{ext}"
WithStemExt(path, ext) == SubSeq(path, 1, Len(path) - 1) \o <<ext>>

Suffix(path) == path[Len(path)]

\* POST /transcribe/url
transcribe_url(url, format) ==
    /\ Cardinality(DOMAIN transcription_jobs) < MaxJobs
    /\ LET job_id == uuid4
       IN  /\ transcription_jobs' =
                Put(transcription_jobs, job_id, NewJob(job_id, "Job created"))
           /\ tasks' = Put(tasks, job_id, NewTask("url", url, <<>>, format))
    /\ UNCHANGED <<files, config, notApi>>

\* the response of POST /transcribe/file
transcribe_file_response(job_id, saved) ==
    IF saved
    THEN [code |-> 200, job_id |-> job_id, status |-> "pending",
          message |-> "Transcription job started"]
    ELSE [code |-> 500, detail |-> "Failed to save file"]

\* an upload handler that registers the job whether or not the file was saved
transcribe_file_AlwaysRegisters(filename, format, saved) ==
    /\ Cardinality(DOMAIN transcription_jobs) < MaxJobs
    /\ LET job_id    == uuid4
           file_path == JoinPath(config.temp_dir, <<job_id, "_">> \o filename)
       IN  /\ files' = IF saved THEN files \cup {file_path} ELSE files
           /\ transcription_jobs' =
                Put(transcription_jobs, job_id, NewJob(job_id, "File uploaded"))
           /\ tasks' = Put(tasks, job_id, NewTask("file", <<>>, file_path, format))
    /\ UNCHANGED <<config, notApi>>

\* POST /transcribe/file: saved tells whether writing the upload succeeded;
\* when it did not, the handler answers 500 before touching the registry
transcribe_file(filename, format, saved) ==
    /\ Cardinality(DOMAIN transcription_jobs) < MaxJobs
    /\ LET job_id    == uuid4
           file_path == JoinPath(config.temp_dir, <<job_id, "_">> \o filename)
       IN  IF saved
           THEN /\ files' = files \cup {file_path}
                /\ transcription_jobs' =
                     Put(transcription_jobs, job_id, NewJob(job_id, "File uploaded"))
                /\ tasks' = Put(tasks, job_id, NewTask("file", <<>>, file_path, format))
           ELSE UNCHANGED <<files, transcription_jobs, tasks>>
    /\ UNCHANGED <<config, notApi>>

\* the response of GET /jobs/{job_id}
get_job_status(job_id) ==
    IF job_id \notin DOMAIN transcription_jobs
    THEN [code |-> 404, detail |-> "Job not found", body |-> <<>>]
    ELSE [code |-> 200, detail |-> "", body |-> Some(transcription_jobs[job_id])]

\* the response of GET /jobs
list_jobs ==
    [code |-> 200, detail |-> "",
     body |-> { transcription_jobs[j] : j \in DOMAIN transcription_jobs }]

\* str.replace(old, "") on a token sequence
Replace(s, old) == SelectSeq(s, LAMBDA t : t # old)

\* a download that serves any job of the registry, whatever its status
download_result_AnyStatus(job_id) ==
    IF job_id \notin DOMAIN transcription_jobs
    THEN [code |-> 404, detail |-> "Job not found", path |-> <<>>]
    ELSE [code |-> 200, detail |-> "", path |-> <<job_id>>]

\* the response of GET /download/{job_id}
download_result(job_id) ==
    IF job_id \notin DOMAIN transcription_jobs
    THEN [code |-> 404, detail |-> "Job not found", path |-> <<>>]
    ELSE LET job == transcription_jobs[job_id]
         IN  IF job.status # "completed"
             THEN [code |-> 400, detail |-> "Job not completed", path |-> <<>>]
             ELSE IF job.download_url = <<>>
             THEN [code |-> 404, detail |-> "Download file not found", path |-> <<>>]
             ELSE LET file_path == Replace(job.download_url, "/download/")
                  IN  IF file_path \notin files
                      THEN [code |-> 404, detail |-> "File not found", path |-> <<>>]
                      ELSE [code |-> 200, detail |-> "", path |-> file_path]

\* GET /jobs/{job_id}, GET /jobs, GET /download/{job_id}: they only read
GetJobStatus(job_id) ==
    /\ get_job_status(job_id).code \in {200, 404}
    /\ UNCHANGED vars

ListJobs ==
    /\ list_jobs.code = 200
    /\ UNCHANGED vars

DownloadResult(job_id) ==
    /\ download_result(job_id).code \in {200, 400, 404}
    /\ UNCHANGED vars

\* the fields of TranscriptionConfig followed here, with their defaults
TranscriptionDefaults == [model |-> "base", language |-> "None", force_cpu |-> FALSE]

\* TranscriptionConfig(**data): the declared fields, each with the value given
\* or its default; a key that is no field is ignored
TranscriptionConfig(data) ==
    [k \in DOMAIN TranscriptionDefaults |->
        IF k \in DOMAIN data THEN data[k] ELSE TranscriptionDefaults[k]]

\* AppConfig(**data): the nested transcription settings are validated
AppConfig(data) ==
    [k \in DOMAIN data |->
        IF k = "transcription" THEN TranscriptionConfig(data[k]) ELSE data[k]]

\* config.update_config(**kwargs): a new AppConfig from the old settings
\* overridden by the given ones
update_config(old, kwargs) ==
    AppConfig([k \in DOMAIN old |-> IF k \in DOMAIN kwargs THEN kwargs[k] ELSE old[k]])

\* POST /config with a log_level
update_config_endpoint(level) ==
    /\ config' = update_config(config, [log_level |-> level])
    /\ UNCHANGED <<transcription_jobs, tasks, files, notApi>>


(***************************************************************************)
(* process_url_transcription: transcribe_from_url in a worker thread       *)
(* (download, extract audio, remove video, load model, transcribe, remove  *)
(* audio), then write the result and mark the job completed.               *)
(***************************************************************************)
IsTask(job_id, kind, pc) ==
    /\ job_id \in DOMAIN tasks
    /\ tasks[job_id].kind = kind
    /\ tasks[job_id].pc = pc

\* str.lower on the tokens of a name
Lower(c) == CASE c = "A" -> "a" [] c = "B" -> "b" [] c = "MP4" -> "mp4" [] OTHER -> c

lower(name) == [i \in DOMAIN name |-> Lower(name[i])]

\* "title in name": name has title as a contiguous part
Contains(name, title) ==
    \E i \in 1..(Len(name) - Len(title) + 1) :
        SubSeq(name, i, i + Len(title) - 1) = title

\* any(file.endswith(ext) for ext in extensions)
HasVideoExtension(name) ==
    /\ Len(name) >= 2
    /\ name[Len(name) - 1] = "."
    /\ name[Len(name)] \in Range(VideoExtensions)

\* a variant that takes the first of the files, not the most recent
Latest_First(entries) == entries[1]

\* max(files, key=os.path.getctime): the first of the files, in their order,
\* that no other file is more recent than
Latest(entries) ==
    entries[CHOOSE i \in 1..Len(entries) :
                /\ \A j \in 1..Len(entries) : entries[j].ctime <= entries[i].ctime
                /\ \A j \in 1..(i - 1) : entries[j].ctime < entries[i].ctime]

\* VideoDownloader._find_downloaded_file.  listing is os.listdir(output_path)
\* in the order the system gives it, every entry with its name and its
\* creation time; the result is None when FileNotFoundError is raised
_find_downloaded_file(listing, output_path, title) ==
    LET names == { listing[i].name : i \in 1..Len(listing) }
        exact == SelectSeq(VideoExtensions,
                     LAMBDA ext : title \o <<".", ext>> \in names)
        alike == SelectSeq(listing,
                     LAMBDA f : HasVideoExtension(f.name)
                                  /\ Contains(lower(f.name), lower(title)))
        videos == SelectSeq(listing, LAMBDA f : HasVideoExtension(f.name))
    IN  IF exact # <<>> THEN Some(JoinPath(output_path, title \o <<".", exact[1]>>))
        ELSE IF alike # <<>> THEN Some(JoinPath(output_path, alike[1].name))
        ELSE IF videos # <<>> THEN Some(JoinPath(output_path, Latest(videos).name))
        ELSE <<>>

\* the names of the files of the directory dir among the paths fs
NamesIn(fs, dir) ==
    { SubSeq(p, Len(dir) + 2, Len(p)) :
        p \in { q \in fs : Len(q) > Len(dir) + 1
                           /\ SubSeq(q, 1, Len(dir) + 1) = dir \o <<"/">> } }

\* os.listdir(dir) with the creation times: the files in any order, with any
\* creation times
ListDir(fs, dir) ==
    LET names == NamesIn(fs, dir)
        n     == Cardinality(names)
    IN  { l \in [1..n -> [name : names, ctime : 1..n]] :
            \A i, j \in 1..n : i # j => l[i].name # l[j].name }

\* AudioExtractor.extract_audio / convert_audio with output_path None
DefaultAudioPath(input_path) == WithStemExt(input_path, AudioFormat)

\* api.py:428-431
UrlStart(job_id) ==
    /\ IsTask(job_id, "url", "queued")
    /\ transcription_jobs' =
         MarkProcessing(transcription_jobs, job_id, "Downloading and transcribing...")
    /\ tasks' = [tasks EXCEPT ![job_id].pc = "download"]
    /\ UNCHANGED <<files, config, notApi>>

\* VideoDownloader.download_video
DownloadVideo(job_id, ok) ==
    /\ IsTask(job_id, "url", "download")
    /\ IF ok
       THEN LET title == <<tasks[job_id].url>>
                fs    == files \cup {JoinPath(DownloadDir, title \o <<".", "mp4">>)}
            IN  \E listing \in ListDir(fs, DownloadDir) :
                  LET found == _find_downloaded_file(listing, DownloadDir, title)
                  IN  /\ files' = fs
                      /\ IF found = <<>>
                         THEN Raise(job_id, E_NOT_DOWNLOADED)
                         ELSE /\ tasks' = [tasks EXCEPT ![job_id].pc = "extract",
                                                        ![job_id].video_path = found[1]]
                              /\ UNCHANGED transcription_jobs
       ELSE /\ Raise(job_id, E_DOWNLOAD)
            /\ UNCHANGED files
    /\ UNCHANGED <<config, notApi>>

\* download_and_extract_audio, downloader.py:160-170: extract the audio, then
\* remove the video (removed tells whether os.remove succeeded)
ExtractAudio(job_id, ok, removed) ==
    /\ IsTask(job_id, "url", "extract")
    /\ LET video_path == tasks[job_id].video_path
           audio_path == DefaultAudioPath(video_path)
       IN  IF ok /\ video_path \in files
           THEN /\ files' = (files \cup {audio_path})
                               \ (IF removed THEN {video_path} ELSE {})
                /\ tasks' = [tasks EXCEPT ![job_id].pc = "transcribe",
                                          ![job_id].audio_path = audio_path,
                                          ![job_id].attempted = @ \cup {video_path}]
                /\ UNCHANGED transcription_jobs
           ELSE /\ Raise(job_id, E_FFMPEG)
                /\ UNCHANGED files
    /\ UNCHANGED <<config, notApi>>

Outcomes == {"ok", "model", "whisper"}

\* transcribe_audio(audio_path, None, config): WhisperTranscriber(config), then
\* transcribe.  The exception it raises (None when it returns), given how the
\* model load and the model call went
TranscribeError(fs, audio_path, outcome) ==
    IF outcome = "model" THEN Some(E_MODEL)
    ELSE IF audio_path \notin fs THEN Some(E_AUDIO_NOT_FOUND)
    ELSE IF outcome = "whisper" THEN Some(E_WHISPER)
    ELSE <<>>

\* WhisperTranscriber.transcribe, transcriber.py:137-151
TranscriptionResult(w, audio_path) ==
    [text |-> w.text, segments |-> w.segments, language |-> w.language,
     metadata |-> [model |-> "base", language |-> w.language,
                   audio_file |-> audio_path]]

\* transcribe_from_url, transcriber.py:246-256: transcribe, and in the finally
\* clause remove the audio file
TranscribeUrl(job_id, outcome, w, removed) ==
    /\ IsTask(job_id, "url", "transcribe")
    /\ LET audio_path == tasks[job_id].audio_path
           e          == TranscribeError(files, audio_path, outcome)
       IN  /\ files' = files \ (IF removed THEN {audio_path} ELSE {})
           /\ IF e = <<>>
              THEN /\ tasks' = [tasks EXCEPT
                         ![job_id].pc = "write",
                         ![job_id].result = Some(TranscriptionResult(w, audio_path)),
                         ![job_id].attempted = @ \cup {audio_path}]
                   /\ UNCHANGED transcription_jobs
              ELSE /\ transcription_jobs' =
                        MarkFailed(transcription_jobs, job_id, e[1])
                   /\ tasks' = [tasks EXCEPT
                         ![job_id].pc = "done",
                         ![job_id].raised = e,
                         ![job_id].attempted = @ \cup {audio_path}]
    /\ UNCHANGED <<config, notApi>>

\* api.py:437-440: the file the task asks OutputWriter to write
OutputFile(job_id, format) ==
    JoinPath(JoinPath(config.temp_dir, <<"results">>), <<job_id, ".", format>>)

\* api.py:436-452
WriteUrl(job_id, ok) ==
    /\ IsTask(job_id, "url", "write")
    /\ IF ok
       THEN LET result  == tasks[job_id].result[1]
                written == write_result(result,
                               OutputFile(job_id, tasks[job_id].format),
                               tasks[job_id].format)
            IN  /\ files' = files \cup {written.path}
                /\ transcription_jobs' =
                     MarkCompleted(transcription_jobs, job_id, result)
                /\ tasks' = [tasks EXCEPT ![job_id].pc = "done",
                                          ![job_id].output_path = Some(written.path)]
       ELSE /\ Raise(job_id, E_WRITE)
            /\ UNCHANGED files
    /\ UNCHANGED <<config, notApi>>

(***************************************************************************)
(* process_file_transcription                                              *)
(***************************************************************************)
\* api.py:465-468
FileStart(job_id) ==
    /\ IsTask(job_id, "file", "queued")
    /\ transcription_jobs' =
         MarkProcessing(transcription_jobs, job_id, "Processing file...")
    /\ tasks' = [tasks EXCEPT ![job_id].pc = "process"]
    /\ UNCHANGED <<files, config, notApi>>

\* process_local_file(file_path): the audio path it returns.  An audio file
\* is converted, a video file has its audio extracted, both to
\* <stem>.<audio_format> beside the input
process_local_file(file_path) ==
    IF Suffix(file_path) \in AudioExtensions
    THEN DefaultAudioPath(file_path)
    ELSE DefaultAudioPath(file_path)

\* a check that takes every path for an existing file
Exists_Always(fs, path) == TRUE

\* file_obj.exists()
Exists(fs, path) == path \in fs

\* the call process_local_file(file_path) on the files fs: the exception it
\* raises or the path it returns, the files afterwards and the runs of ffmpeg
\* (ok tells whether ffmpeg can decode the input).  ffmpeg refuses an output
\* that is its input
ProcessLocal(fs, file_path, ok) ==
    LET audio_path == process_local_file(file_path)
        run        == [tool |-> "ffmpeg", input |-> file_path, output |-> audio_path]
    IN  IF ~ Exists(fs, file_path)
        THEN [raised |-> Some(E_FILE_NOT_FOUND), returned |-> <<>>,
              files |-> fs, tools |-> <<>>]
        ELSE IF ok /\ file_path \in fs /\ audio_path # file_path
        THEN [raised |-> <<>>, returned |-> Some(audio_path),
              files |-> fs \cup {audio_path}, tools |-> <<run>>]
        ELSE [raised |-> Some(E_FFMPEG), returned |-> <<>>,
              files |-> fs, tools |-> <<run>>]

\* api.py:471-474
ProcessLocalFile(job_id, ok) ==
    /\ IsTask(job_id, "file", "process")
    /\ LET r == ProcessLocal(files, tasks[job_id].file_path, ok)
       IN  /\ files' = r.files
           /\ IF r.raised # <<>>
              THEN Raise(job_id, r.raised[1])
              ELSE /\ tasks' = [tasks EXCEPT ![job_id].pc = "transcribe",
                                             ![job_id].audio_path = r.returned[1]]
                   /\ transcription_jobs' =
                        SetMessage(transcription_jobs, job_id, "Transcribing audio...")
    /\ UNCHANGED <<config, notApi>>

\* api.py:475
TranscribeFile(job_id, outcome, w) ==
    /\ IsTask(job_id, "file", "transcribe")
    /\ LET audio_path == tasks[job_id].audio_path
           e          == TranscribeError(files, audio_path, outcome)
       IN  IF e = <<>>
           THEN /\ tasks' = [tasks EXCEPT
                      ![job_id].pc = "write",
                      ![job_id].result = Some(TranscriptionResult(w, audio_path))]
                /\ UNCHANGED transcription_jobs
           ELSE Raise(job_id, e[1])
    /\ UNCHANGED <<files, config, notApi>>

\* api.py:495-501: os.remove(file_path), then os.remove(audio_path) when it
\* is another file; the first failure ends the clean-up (it is only logged).
\* removed is how many of the removals succeed
CleanUp(fs, file_path, audio_path, removed) ==
    IF removed = 0 THEN fs
    ELSE IF removed = 1 \/ audio_path = file_path THEN fs \ {file_path}
    ELSE fs \ {file_path, audio_path}

\* api.py:495-501: the paths os.remove is called on
CleanUpAttempts(file_path, audio_path, removed) ==
    IF removed = 0 \/ audio_path = file_path THEN {file_path}
    ELSE {file_path, audio_path}

\* api.py:477-501
WriteFile(job_id, ok, removed) ==
    /\ IsTask(job_id, "file", "write")
    /\ IF ok
       THEN LET result  == tasks[job_id].result[1]
                written == write_result(result,
                               OutputFile(job_id, tasks[job_id].format),
                               tasks[job_id].format)
            IN  /\ files' = CleanUp(files \cup {written.path},
                                    tasks[job_id].file_path,
                                    tasks[job_id].audio_path, removed)
                /\ transcription_jobs' =
                     MarkCompleted(transcription_jobs, job_id, result)
                /\ tasks' = [tasks EXCEPT
                      ![job_id].pc = "done",
                      ![job_id].output_path = Some(written.path),
                      ![job_id].attempted =
                          @ \cup CleanUpAttempts(tasks[job_id].file_path,
                                                 tasks[job_id].audio_path, removed)]
       ELSE /\ Raise(job_id, E_WRITE)
            /\ UNCHANGED files
    /\ UNCHANGED <<config, notApi>>

(***************************************************************************)
(* The API server as a whole                                               *)
(***************************************************************************)
Init ==
    /\ transcription_jobs = <<>>
    /\ tasks = <<>>
    /\ files = {}
    /\ config = DefaultConfig
    /\ FmtIdle
    /\ BackendIdle
    /\ FlaskIdle
    /\ FnIdle

\* one step of the background task of a job
TaskStep(job_id) ==
    \/ UrlStart(job_id)
    \/ \E ok \in BOOLEAN : DownloadVideo(job_id, ok)
    \/ \E ok, removed \in BOOLEAN : ExtractAudio(job_id, ok, removed)
    \/ \E outcome \in Outcomes, w \in WhisperOutputs, removed \in BOOLEAN :
          TranscribeUrl(job_id, outcome, w, removed)
    \/ \E ok \in BOOLEAN : WriteUrl(job_id, ok)
    \/ FileStart(job_id)
    \/ \E ok \in BOOLEAN : ProcessLocalFile(job_id, ok)
    \/ \E outcome \in Outcomes, w \in WhisperOutputs :
          TranscribeFile(job_id, outcome, w)
    \/ \E ok \in BOOLEAN, removed \in 0..2 : WriteFile(job_id, ok, removed)

Next ==
    \/ \E url \in Urls, format \in RequestFormats : transcribe_url(url, format)
    \/ \E filename \in Filenames, format \in RequestFormats, saved \in BOOLEAN :
          transcribe_file(filename, format, saved)
    \/ \E job_id \in JobIds : GetJobStatus(job_id)
    \/ ListJobs
    \/ \E job_id \in JobIds : DownloadResult(job_id)
    \/ \E level \in LogLevels : update_config_endpoint(level)
    \/ \E job_id \in JobIds : TaskStep(job_id)

Spec == Init /\ [][Next]_vars

\* the event loop and the thread pool run every task that can take a step
LiveSpec == Spec /\ \A job_id \in JobIds : WF_vars(TaskStep(job_id))


(***************************************************************************)
(* backend/: the file-based service.  A job is known only by the files     *)
(* its background task leaves in RESULTS_DIR; b_files maps every path to   *)
(* the content of the file there.                                          *)
(***************************************************************************)
UPLOAD_DIR == <<"uploads">>

RESULTS_DIR == <<"results">>

\* os.remove(path) when os.path.exists(path)
Remove(f, k) == [x \in DOMAIN f \ {k} |-> f[x]]

\* uuid.uuid4() of backend/main.py: an identifier no job has had
new_job_id == UUIDS[Cardinality(DOMAIN b_tasks) + 1]

\* str(e) of what the steps of a task raise
E_YTDLP == "Command 'yt-dlp' returned non-zero exit status 1."
E_AUDIO == "Command 'ffmpeg' returned non-zero exit status 1."
E_NO_KEY == "OpenAI API key not found."
E_NO_LOCAL_MODEL == "Local Whisper model is not available."
E_NO_SPACE == "[Errno 28] No space left on device"
E_REMOVE == "[Errno 13] Permission denied"
E_API == "Connection error."
E_LOCAL == "Failed to load audio"

\* the subtitle tracks a video can carry, as ffmpeg extracts them
SubtitleTracks ==
    { to_srt([segments |-> <<[start |-> 0, end |-> Seconds(1), text |-> t]>>]) :
        t \in { <<"<", "i", ">", "H", "i", "<", "/", "i", ">">> } }

\* what Whisper hears in a video
SpokenTexts == { <<" ", "H", "i">> }

\* re.match(r'^\d+$', line)
IsNumberLine(line) ==
    line # <<>> /\ \A i \in 1..Len(line) : line[i] \in DigitSet

\* the loop of parse_srt: the lines that are neither empty, nor a cue number
\* (whose next line is skipped with it), nor a time line
RECURSIVE TextLines(_, _)
TextLines(lines, i) ==
    IF i > Len(lines) THEN <<>>
    ELSE LET line == strip(lines[i])
         IN  IF line = <<>> THEN TextLines(lines, i + 1)
             ELSE IF IsNumberLine(line) THEN TextLines(lines, i + 2)
             ELSE IF TimeLineShape(line, ",") THEN TextLines(lines, i + 1)
             ELSE <<line>> \o TextLines(lines, i + 1)

\* re.sub(open + '[^' + close + ']+' + close, '', s)
RECURSIVE RemoveDelimited(_, _, _)
RemoveDelimited(s, open, close) ==
    IF s = <<>> THEN <<>>
    ELSE IF Head(s) # open
    THEN <<Head(s)>> \o RemoveDelimited(Tail(s), open, close)
    ELSE IF \A k \in 2..Len(s) : s[k] # close THEN s
    ELSE LET k == CHOOSE k \in 2..Len(s) :
                      s[k] = close /\ \A j \in 2..(k - 1) : s[j] # close
         IN  IF k = 2
             THEN <<open>> \o RemoveDelimited(Tail(s), open, close)
             ELSE RemoveDelimited(SubSeq(s, k + 1, Len(s)), open, close)

\* re.sub(r'\s+', ' ', s)
RECURSIVE NormalizeWhitespace(_)
NormalizeWhitespace(s) ==
    IF s = <<>> THEN <<>>
    ELSE IF Head(s) \in Whitespace
    THEN <<" ">> \o NormalizeWhitespace(lstrip(s))
    ELSE <<Head(s)>> \o NormalizeWhitespace(Tail(s))

\* SubtitleParser.parse_srt, on the decoded content of the file
parse_srt(content) ==
    LET text   == Join(TextLines(SplitLines(content), 1), <<" ">>)
        notags == RemoveDelimited(text, "<", ">")
        nocurl == RemoveDelimited(notags, "{", "}")
    IN  strip(NormalizeWhitespace(nocurl))

ResultPath(job_id) == RESULTS_DIR \o <<"/", job_id, ".", "txt">>

ErrorPath(job_id) == RESULTS_DIR \o <<"/", job_id, ".", "error">>

\* the files of tempfile.mkdtemp / tempfile.mktemp: names nobody else has
TmpPath(job_id, suffix) == <<"tmp", "/", job_id, ".", suffix>>

\* how many jobs the backend is given (its jobs share no file)
MaxUploads == 1

BJobIds == { UUIDS[i] : i \in 1..(MaxUploads + 1) }

\* calls lists the external tools and services the task has invoked, in
\* order; subtitles is the caption file that parsed without error, if any;
\* escaped is the exception that left the task, if any
BTask(kind, pc, video_path, use_openai_api) ==
    [kind |-> kind, pc |-> pc, video_path |-> video_path,
     use_openai_api |-> use_openai_api, audio_path |-> <<>>, text |-> <<>>,
     raised |-> <<>>, escaped |-> <<>>, calls |-> <<>>, subtitles |-> <<>>]

IsBTask(job_id, pc) ==
    job_id \in DOMAIN b_tasks /\ b_tasks[job_id].pc = pc

Called(t, steps) == [t EXCEPT !.calls = @ \o steps]

\* POST /upload/file: saved tells whether writing the upload succeeded; when
\* it did not, the handler raises before it schedules a task
upload_file(filename, use_openai_api, saved) ==
    /\ Cardinality(DOMAIN b_tasks) < MaxUploads
    /\ LET job_id    == new_job_id
           file_path == UPLOAD_DIR \o <<"/", job_id, "_">> \o filename
       IN  IF saved
           THEN /\ b_files' = Put(b_files, file_path, <<"video">>)
                /\ b_tasks' = Put(b_tasks, job_id,
                       BTask("file", "subtitles", file_path, use_openai_api))
           ELSE UNCHANGED <<b_files, b_tasks>>
    /\ UNCHANGED notBackend

\* POST /upload/url
upload_url(url, use_openai_api) ==
    /\ Cardinality(DOMAIN b_tasks) < MaxUploads
    /\ LET job_id == new_job_id
       IN  b_tasks' = Put(b_tasks, job_id,
               BTask("url", "download", TmpPath(job_id, "mp4"), use_openai_api))
    /\ UNCHANGED <<b_files, notBackend>>

\* the response of GET /status/{job_id}
get_status(job_id) ==
    IF ResultPath(job_id) \in DOMAIN b_files
    THEN [status |-> "completed", text |-> b_files[ResultPath(job_id)]]
    ELSE IF ErrorPath(job_id) \in DOMAIN b_files
    THEN [status |-> "error", error |-> b_files[ErrorPath(job_id)]]
    ELSE [status |-> "processing"]

\* GET /status/{job_id} reads and changes nothing
GetStatus(job_id) == UNCHANGED vars

\* what the file system lets the except and finally clauses do: whether
\* _save_error can write the error file, and whether os.remove of the video
\* succeeds
IOs == [saved : BOOLEAN, removed : BOOLEAN]

\* the finally clause of process_video / process_video_url on the files fs:
\* the video is removed if it is there; os.remove is not guarded, so when it
\* fails its exception leaves the task (pending is the exception the except
\* clause already let through, if any)
Finally(job_id, t, fs, pending, io) ==
    LET there == t.video_path \in DOMAIN fs
    IN  /\ b_files' = IF io.removed THEN Remove(fs, t.video_path) ELSE fs
        /\ b_tasks' = [b_tasks EXCEPT ![job_id] =
               [t EXCEPT !.pc = "done",
                         !.escaped = IF there /\ ~io.removed THEN Some(E_REMOVE)
                                     ELSE pending]]

\* the except and finally clauses of process_video / process_video_url after
\* a step raised e, with the task as t and the files as fs: _save_error writes
\* the error file, or raises itself and its exception leaves the task
Except(job_id, t, fs, e, io) ==
    Finally(job_id,
            [Called(t, <<"save_error">>) EXCEPT !.raised = Some(e)],
            IF io.saved THEN Put(fs, ErrorPath(job_id), <<e>>) ELSE fs,
            IF io.saved THEN <<>> ELSE Some(E_NO_SPACE),
            io)

\* a subprocess.run that goes on whatever the exit status
check_returncode_Ignored(ok) == TRUE

\* subprocess.run(cmd, check=True): returns when the tool exited with 0 (ok),
\* raises CalledProcessError otherwise
check_returncode(ok) == ok

\* the entry of calls for a run of an external tool
Ran(tool, ok) == IF ok THEN <<tool>> ELSE <<tool, "exited nonzero">>

\* process_video_url: yt-dlp writes the video to tmp_path, or fails
YtDlp(job_id, ok, io) ==
    /\ IsBTask(job_id, "download")
    /\ LET t == Called(b_tasks[job_id], Ran("yt-dlp", ok))
       IN  IF check_returncode(ok)
           THEN /\ b_files' = Put(b_files, t.video_path, <<"video">>)
                /\ b_tasks' = [b_tasks EXCEPT ![job_id] = [t EXCEPT !.pc = "subtitles"]]
           ELSE Except(job_id, t, b_files, E_YTDLP, io)
    /\ UNCHANGED notBackend

\* the subtitle tracks ffmpeg can extract: none (ffmpeg fails), an empty file
\* (which is left behind), or SRT content
Tracks == {<<>>, Some(<<>>)} \cup { Some(s) : s \in SubtitleTracks }

\* _process_video_file: "if subtitle_path and os.path.exists(subtitle_path)"
HasSubtitles(track) == track # <<>> /\ track[1] # <<>>

\* a variant that extracts the audio whatever the subtitles
Bypasses_Never(track, parsed) == FALSE

\* _process_video_file: whether the parsed subtitles are returned as the text
Bypasses(track, parsed) == HasSubtitles(track) /\ parsed

\* _process_video_file, first half: _extract_subtitles and parse_srt.  parsed
\* tells whether parse_srt returned, unlinked whether os.remove of the
\* subtitle file succeeds (it is not guarded: a failure ends the task with
\* that error, also inside the except clause that follows a parse error).
ExtractSubtitles(job_id, track, parsed, unlinked, io) ==
    /\ IsBTask(job_id, "subtitles")
    /\ LET srt_path == TmpPath(job_id, "srt")
           t == [Called(b_tasks[job_id],
                        IF HasSubtitles(track)
                        THEN <<"extract_subtitles", "parse_srt">>
                        ELSE <<"extract_subtitles">>)
                   EXCEPT !.subtitles = IF HasSubtitles(track) /\ parsed
                                        THEN track ELSE <<>>]
       IN  IF HasSubtitles(track) /\ ~unlinked
           THEN Except(job_id, t, Put(b_files, srt_path, track[1]), E_REMOVE, io)
           ELSE IF Bypasses(track, parsed)
           THEN /\ b_tasks' = [b_tasks EXCEPT ![job_id] =
                      [t EXCEPT !.pc = "save", !.text = Some(parse_srt(track[1]))]]
                /\ UNCHANGED b_files
           ELSE /\ b_tasks' = [b_tasks EXCEPT ![job_id] = [t EXCEPT !.pc = "audio"]]
                /\ b_files' = IF track = Some(<<>>)
                              THEN Put(b_files, srt_path, <<>>)
                              ELSE b_files
    /\ UNCHANGED notBackend

\* _process_video_file: _extract_audio; ffmpeg exits with 0 when it could
\* extract the audio (ok) from a video that is there
BExtractAudio(job_id, ok, io) ==
    /\ IsBTask(job_id, "audio")
    /\ LET exit0      == ok /\ b_tasks[job_id].video_path \in DOMAIN b_files
           t          == Called(b_tasks[job_id], Ran("extract_audio", exit0))
           audio_path == TmpPath(job_id, "wav")
       IN  IF check_returncode(exit0)
           THEN /\ b_files' = Put(b_files, audio_path, <<"audio">>)
                /\ b_tasks' = [b_tasks EXCEPT ![job_id] =
                       [t EXCEPT !.pc = "whisper", !.audio_path = Some(audio_path)]]
           ELSE Except(job_id, t, b_files, E_AUDIO, io)
    /\ UNCHANGED notBackend

\* what a call of the transcription service finds: whether OPENAI_API_KEY is
\* set, whether the local model is loaded, and whether the backend it calls
\* returns a text
WhisperEnvs == [key : BOOLEAN, loaded : BOOLEAN, ok : BOOLEAN]

\* WhisperService._transcribe_with_openai_api
_transcribe_with_openai_api(env, text) ==
    IF ~env.key THEN [invoked |-> <<"openai">>, raised |-> Some(E_NO_KEY), text |-> <<>>]
    ELSE IF ~env.ok THEN [invoked |-> <<"openai">>, raised |-> Some(E_API), text |-> <<>>]
    ELSE [invoked |-> <<"openai">>, raised |-> <<>>, text |-> text]

\* WhisperService._transcribe_with_local_model
_transcribe_with_local_model(env, text) ==
    IF ~env.loaded
    THEN [invoked |-> <<"local">>, raised |-> Some(E_NO_LOCAL_MODEL), text |-> <<>>]
    ELSE IF ~env.ok THEN [invoked |-> <<"local">>, raised |-> Some(E_LOCAL), text |-> <<>>]
    ELSE [invoked |-> <<"local">>, raised |-> <<>>, text |-> text]

\* a service that tries the other backend when the selected one raises
transcribe_audio_FallsBack(use_openai_api, env, text) ==
    LET first  == IF use_openai_api THEN _transcribe_with_openai_api(env, text)
                  ELSE _transcribe_with_local_model(env, text)
        second == IF use_openai_api THEN _transcribe_with_local_model(env, text)
                  ELSE _transcribe_with_openai_api(env, text)
    IN  IF first.raised = <<>> THEN first
        ELSE [second EXCEPT !.invoked = first.invoked \o @]

\* WhisperService.transcribe_audio: the backends it invoked, and the text it
\* returns or the exception it raises
transcribe_audio(use_openai_api, env, text) ==
    IF use_openai_api THEN _transcribe_with_openai_api(env, text)
    ELSE _transcribe_with_local_model(env, text)

\* _process_video_file, second half: transcribe, and remove the audio in the
\* finally clause; unlinked tells whether that os.remove succeeds (it is not
\* guarded: when it fails its exception replaces the result of the call)
Transcribe(job_id, env, text, unlinked, io) ==
    /\ IsBTask(job_id, "whisper")
    /\ LET r  == transcribe_audio(b_tasks[job_id].use_openai_api, env, text)
           t  == Called(b_tasks[job_id], r.invoked)
           fs == IF unlinked THEN Remove(b_files, t.audio_path[1]) ELSE b_files
       IN  IF ~unlinked THEN Except(job_id, t, fs, E_REMOVE, io)
           ELSE IF r.raised # <<>> THEN Except(job_id, t, fs, r.raised[1], io)
           ELSE /\ b_files' = fs
                /\ b_tasks' = [b_tasks EXCEPT ![job_id] =
                       [t EXCEPT !.pc = "save", !.text = Some(r.text)]]
    /\ UNCHANGED notBackend

\* VideoProcessor._save_result and the finally clause.  wrote is "ok", or
\* "open" when the result file could not be created, or "write" when it was
\* created and writing the text to it failed.
SaveResult(job_id, wrote, io) ==
    /\ IsBTask(job_id, "save")
    /\ LET t == Called(b_tasks[job_id], <<"save_result">>)
       IN  CASE wrote = "ok" ->
                  Finally(job_id, t, Put(b_files, ResultPath(job_id), t.text[1]),
                          <<>>, io)
             [] wrote = "open" -> Except(job_id, t, b_files, E_NO_SPACE, io)
             [] wrote = "write" ->
                  Except(job_id, t, Put(b_files, ResultPath(job_id), <<>>),
                         E_NO_SPACE, io)
    /\ UNCHANGED notBackend

BackendInit ==
    /\ BackendIdle
    /\ ApiIdle
    /\ FmtIdle
    /\ FlaskIdle
    /\ FnIdle

\* one step of the background task of a backend job
BTaskStep(job_id) ==
    \/ \E ok \in BOOLEAN, io \in IOs : YtDlp(job_id, ok, io)
    \/ \E track \in Tracks, parsed, unlinked \in BOOLEAN, io \in IOs :
          ExtractSubtitles(job_id, track, parsed, unlinked, io)
    \/ \E ok \in BOOLEAN, io \in IOs : BExtractAudio(job_id, ok, io)
    \/ \E env \in WhisperEnvs, text \in SpokenTexts, unlinked \in BOOLEAN, io \in IOs :
          Transcribe(job_id, env, text, unlinked, io)
    \/ \E wrote \in {"ok", "open", "write"}, io \in IOs : SaveResult(job_id, wrote, io)

BackendNext ==
    \/ \E filename \in Filenames, use_openai_api, saved \in BOOLEAN :
          upload_file(filename, use_openai_api, saved)
    \/ \E url \in Urls, use_openai_api \in BOOLEAN : upload_url(url, use_openai_api)
    \/ \E job_id \in BJobIds : GetStatus(job_id)
    \/ \E job_id \in BJobIds : BTaskStep(job_id)

BackendSpec == BackendInit /\ [][BackendNext]_vars

(***************************************************************************)
(* The Flask application: src/web_app.py and src/video_processor.py.  One  *)
(* POST /process request is followed from its arrival to its response.     *)
(***************************************************************************)
MaxUrls == 4

\* ThreadPoolExecutor(max_workers=3)
max_workers == 3

\* the URLs of a request, as characters
FlaskUrls == { <<"v", "/", "1">>, <<"v", "2">> }

\* the lists of URLs of a multiple_urls request, in the order of its lines: up
\* to MaxUrls lines that name the two URLs in turn, so that a list of three
\* or more names a URL twice
UrlLists ==
    { [i \in 1..n |-> IF i % 2 = 1 THEN <<"v", "/", "1">> ELSE <<"v", "2">>] :
        n \in 0..MaxUrls }

E_UNLINK == "[Errno 13] Permission denied: 'temp_video.mp4'"
E_STT == "Connection error."

\* how the processing of one URL goes: the step that raises, or "ok"
FlaskOutcomes == {"ok", "yt-dlp", "ffmpeg", "stt", "unlink"}

\* the text the speech-to-text service returns for the audio of url
Transcript(url) == <<"words of ">> \o url

\* f"<prefix>: {str(e)}", the prefix being the Chinese word for error
ErrorText(e) == <<"error: ", e>>

\* the exception the try block of process_video_url raises (None when it
\* returns the text)
TryError(outcome) ==
    CASE outcome = "yt-dlp" -> Some(E_YTDLP)
      [] outcome = "ffmpeg" -> Some(E_AUDIO)
      [] outcome = "stt"    -> Some(E_STT)
      [] OTHER              -> <<>>

\* VideoProcessor.process_video_url(url, output_file): caught is the exception
\* of the except clause, returned the value of the call, raised the exception
\* that leaves it (from cleanup_temp_files in the finally clause), saved what
\* save_text_to_file wrote to output_file
process_video_url(url, output_file, outcome) ==
    LET e == TryError(outcome)
    IN  [caught   |-> e,
         saved    |-> IF e = <<>> /\ output_file # <<>>
                      THEN Some(Transcript(url)) ELSE <<>>,
         returned |-> IF outcome = "unlink" THEN <<>>
                      ELSE IF e = <<>> THEN Some(Transcript(url))
                      ELSE Some(ErrorText(e[1])),
         raised   |-> IF outcome = "unlink" THEN Some(E_UNLINK) ELSE <<>>]

\* web_app.py:34: the directory of the results of the request
ResultDir == <<"results", "/", "job">>

\* re.sub(r'[^\w]', '_', url)[-40:] + ".txt"
SafeChar(c) == IF c \in {"/", ":", "?", ".", "=", "&"} THEN "_" ELSE c

Last40(s) == IF Len(s) <= 40 THEN s ELSE SubSeq(s, Len(s) - 39, Len(s))

OutputName(url) == Last40([i \in DOMAIN url |-> SafeChar(url[i])]) \o <<".txt">>

\* save_text_to_file(text, filename)
save_text_to_file(fs, text, filename) == Put(fs, filename, text)

\* web_app.py:92-96: the merged file, one block for each entry of results in
\* the order the entries were inserted
RECURSIVE Merged(_, _)
Merged(order, results) ==
    IF order = <<>> THEN <<>>
    ELSE <<"=== ">> \o order[1] \o <<" ===\n\n">> \o results[order[1]]
           \o <<"\n\n", "====", "\n\n">> \o Merged(Tail(order), results)

\* web_app.py:38-52: a request of type url
PostUrl(url, outcome) ==
    /\ f_req = <<>>
    /\ IF url = <<>>
       THEN /\ f_req' = Some([type |-> "url", urls |-> <<>>, pool |-> <<>>,
                              order |-> <<>>, results |-> <<>>,
                              response |-> Some([code |-> 400,
                                                 error |-> "no URL given"])])
            /\ UNCHANGED f_files
       ELSE LET output_file == JoinPath(ResultDir, <<"result.txt">>)
                r == process_video_url(url, Some(output_file), outcome)
            IN  /\ f_files' = IF r.saved = <<>> THEN f_files
                              ELSE save_text_to_file(f_files, r.saved[1], output_file)
                /\ f_req' = Some(
                     [type |-> "url", urls |-> <<url>>,
                      pool |-> <<[url |-> url, state |-> "collected", run |-> Some(r)]>>,
                      order |-> <<>>, results |-> <<>>,
                      response |->
                        IF r.raised # <<>>
                        THEN Some([code |-> 500, error |-> r.raised[1]])
                        ELSE Some([code |-> 200, success |-> TRUE,
                                   text |-> r.returned[1],
                                   download_url |-> <<"/download/", "job", "/result.txt">>])])
    /\ UNCHANGED notFlask

\* web_app.py:81-88 and video_processor.py:85-92: a request of type
\* multiple_urls; every URL is submitted to the executor
PostMultipleUrls(urls) ==
    /\ f_req = <<>>
    /\ f_req' = Some(
         [type |-> "multiple_urls", urls |-> urls,
          pool |-> [i \in DOMAIN urls |->
                      [url |-> urls[i], state |-> "queued", run |-> <<>>]],
          order |-> <<>>, results |-> <<>>,
          response |-> IF urls = <<>>
                       THEN Some([code |-> 400, error |-> "no URL list given"])
                       ELSE <<>>])
    /\ UNCHANGED <<f_files, notFlask>>

\* the tasks a worker thread of the executor is running
Executing(pool) == { i \in DOMAIN pool : pool[i].state = "running" }

\* a task leaves the queue of the executor only when a worker thread is idle
HasIdleWorker_Always(pool) == TRUE

HasIdleWorker(pool) == Cardinality(Executing(pool)) < max_workers

\* a worker thread takes the oldest task of the queue of the executor
WorkerStart(i) ==
    /\ f_req # <<>> /\ i \in DOMAIN f_req[1].pool
    /\ f_req[1].pool[i].state = "queued"
    /\ \A j \in 1..(i - 1) : f_req[1].pool[j].state # "queued"
    /\ HasIdleWorker(f_req[1].pool)
    /\ f_req' = Some([f_req[1] EXCEPT !.pool[i].state = "running"])
    /\ UNCHANGED <<f_files, notFlask>>

\* the worker thread runs process_video_url(url) to its end
WorkerRun(i, outcome) ==
    /\ f_req # <<>> /\ i \in DOMAIN f_req[1].pool
    /\ f_req[1].pool[i].state = "running"
    /\ f_req' = Some([f_req[1] EXCEPT
          !.pool[i].state = "finished",
          !.pool[i].run = Some(process_video_url(f_req[1].pool[i].url, <<>>, outcome))])
    /\ UNCHANGED <<f_files, notFlask>>

\* video_processor.py:95-109: as_completed yields a finished future; its text
\* is stored and saved (saved_ok tells whether save_text_to_file succeeded)
Collect(i, saved_ok) ==
    /\ f_req # <<>> /\ i \in DOMAIN f_req[1].pool
    /\ f_req[1].pool[i].state = "finished"
    /\ LET url   == f_req[1].pool[i].url
           r     == f_req[1].pool[i].run[1]
           order == IF url \in DOMAIN f_req[1].results THEN f_req[1].order
                    ELSE Append(f_req[1].order, url)
           text  == IF r.raised # <<>> THEN ErrorText(r.raised[1])
                    ELSE IF saved_ok THEN r.returned[1]
                    ELSE ErrorText(E_NO_SPACE)
       IN  /\ f_req' = Some([f_req[1] EXCEPT
                 !.pool[i].state = "collected",
                 !.order = order,
                 !.results = Put(@, url, text)])
           /\ f_files' = IF r.raised = <<>> /\ saved_ok
                         THEN save_text_to_file(f_files, r.returned[1],
                                  JoinPath(ResultDir, OutputName(url)))
                         ELSE f_files
    /\ UNCHANGED notFlask

\* a response sent without waiting for the futures
Respond_Early ==
    /\ f_req # <<>> /\ f_req[1].response = <<>>
    /\ f_files' = save_text_to_file(f_files,
                      Merged(f_req[1].order, f_req[1].results),
                      JoinPath(ResultDir, <<"all_results.txt">>))
    /\ f_req' = Some([f_req[1] EXCEPT !.response =
          Some([code |-> 200, success |-> TRUE, results |-> f_req[1].results,
                download_url |-> <<"/download/", "job", "/all_results.txt">>])])
    /\ UNCHANGED notFlask

\* web_app.py:90-103: every future was collected; the merged file is written
\* and the response sent
Respond ==
    /\ f_req # <<>> /\ f_req[1].response = <<>>
    /\ \A i \in DOMAIN f_req[1].pool : f_req[1].pool[i].state = "collected"
    /\ f_files' = save_text_to_file(f_files,
                      Merged(f_req[1].order, f_req[1].results),
                      JoinPath(ResultDir, <<"all_results.txt">>))
    /\ f_req' = Some([f_req[1] EXCEPT !.response =
          Some([code |-> 200, success |-> TRUE, results |-> f_req[1].results,
                download_url |-> <<"/download/", "job", "/all_results.txt">>])])
    /\ UNCHANGED notFlask

FlaskInit ==
    /\ FlaskIdle
    /\ FmtIdle
    /\ ApiIdle
    /\ BackendIdle
    /\ FnIdle

FlaskNext ==
    \/ \E url \in FlaskUrls \cup {<<>>}, outcome \in FlaskOutcomes :
          PostUrl(url, outcome)
    \/ \E urls \in UrlLists : PostMultipleUrls(urls)
    \/ \E i \in 1..MaxUrls : WorkerStart(i)
    \/ \E i \in 1..MaxUrls, outcome \in FlaskOutcomes : WorkerRun(i, outcome)
    \/ \E i \in 1..MaxUrls, saved_ok \in BOOLEAN : Collect(i, saved_ok)
    \/ Respond

FlaskSpec == FlaskInit /\ [][FlaskNext]_vars


(***************************************************************************)
(* Functions applied on their own: the argument is drawn from a bounded    *)
(* set of inputs, and one step applies the function to it.                 *)
(***************************************************************************)
MaxCues == 2

\* the text bodies of a cue, as written in the file (raw) and as the text a
\* reader of the captions sees (plain)
CueBodies ==
    { [raw |-> <<"H", "i">>, plain |-> <<"H", "i">>],
      [raw |-> <<"4", "2">>, plain |-> <<"4", "2">>],
      [raw |-> <<"<", "i", ">", "a", "<", "/", "i", ">">>, plain |-> <<"a">>],
      [raw |-> <<"{", "b", "}", "c">>, plain |-> <<"c">>] }

\* a cue: its body, and whether its timestamp line is there
Cues == [body : CueBodies, stamped : BOOLEAN]

CueLists == UNION { [1..n -> Cues] : n \in 0..MaxCues }

\* the lines of cue i of a caption file: number, timestamp, body, empty line
RECURSIVE CaptionLines(_, _)
CaptionLines(cues, i) ==
    IF i > Len(cues) THEN <<>>
    ELSE <<Decimal(i)>>
         \o (IF cues[i].stamped
             THEN <<_format_time(Seconds(i)) \o ARROW \o _format_time(Seconds(i + 1))>>
             ELSE <<>>)
         \o <<cues[i].body.raw, <<>>>>
         \o CaptionLines(cues, i + 1)

\* the content of the caption file with these cues
CaptionFile(cues) == Join(CaptionLines(cues, 1), <<NL>>)

ParseArgs == { [fn |-> "parse_srt", cues |-> cues] : cues \in CueLists }

MaxFiles == 2

\* the names of the files a download directory can hold
FileNames ==
    { <<"a", ".", "mp4">>, <<"a", ".", "mkv">>, <<"x", "A", ".", "webm">>,
      <<"b", ".", "mov">>, <<"a", ".", "txt">>, <<"temp_video", ".", "mp4">> }

\* the listings of a directory of at most MaxFiles files
Listings ==
    UNION { { l \in [1..n -> [name : FileNames, ctime : 1..MaxFiles]] :
                \A i, j \in 1..n : i # j => l[i].name # l[j].name } :
            n \in 0..MaxFiles }

\* the titles yt-dlp reports
Titles == { <<"a">>, <<"c">> }

FindArgs ==
    { [fn |-> "_find_downloaded_file", listing |-> l, title |-> t] :
        l \in Listings, t \in Titles }

\* src/downloader.py, download_video after yt-dlp returned: the first file of
\* output_dir.iterdir() whose name starts with "temp_video.", or None when
\* FileNotFoundError is raised
downloaded_file(listing) ==
    LET found == SelectSeq(listing,
                     LAMBDA f : Len(f.name) >= 2
                                  /\ SubSeq(f.name, 1, 2) = <<"temp_video", ".">>)
    IN  IF found = <<>> THEN <<>> ELSE Some(found[1].name)

DownloadedArgs == { [fn |-> "download_video", listing |-> l] : l \in Listings }

\* the configurations update_config starts from
ConfigsBefore ==
    [transcription : { TranscriptionDefaults,
                       [model |-> "medium", language |-> "en", force_cpu |-> TRUE] },
     temp_dir : { <<"temp">> },
     log_level : LogLevels]

\* the keyword arguments of update_config
Kwargs ==
    { [log_level |-> "DEBUG"],
      [transcription |-> [model |-> "small", use_gpu |-> TRUE, language |-> "zh"]],
      [transcription |-> [language |-> "zh"]],
      [transcription |-> [model |-> "small"], log_level |-> "DEBUG"] }

UpdateArgs ==
    { [fn |-> "update_config", old |-> c, kwargs |-> k] :
        c \in ConfigsBefore, k \in Kwargs }

\* the files process_local_file is called on, and the files that exist
LocalFiles ==
    { JoinPath(<<"media">>, n) :
        n \in { <<"clip", ".", "mp4">>, <<"clip", ".", "mp3">>, <<"song", ".", "wav">> } }

LocalArgs ==
    { [fn |-> "process_local_file", file_path |-> f, fs |-> fs, ok |-> ok] :
        f \in LocalFiles, fs \in SUBSET LocalFiles, ok \in BOOLEAN }

FnArgs == ParseArgs \cup FindArgs \cup DownloadedArgs \cup UpdateArgs \cup LocalArgs

FnInit ==
    /\ arg \in FnArgs
    /\ ret = <<>>
    /\ FmtIdle
    /\ ApiIdle
    /\ BackendIdle
    /\ FlaskIdle

\* SubtitleParser.parse_srt on the caption file
ParseSrt ==
    /\ arg.fn = "parse_srt"
    /\ ret = <<>>
    /\ ret' = Some(parse_srt(CaptionFile(arg.cues)))
    /\ UNCHANGED <<arg, notFn>>

\* VideoDownloader._find_downloaded_file on the listing of the directory
FindDownloadedFile ==
    /\ arg.fn = "_find_downloaded_file"
    /\ ret = <<>>
    /\ ret' = Some(_find_downloaded_file(arg.listing, DownloadDir, arg.title))
    /\ UNCHANGED <<arg, notFn>>

\* src/downloader.py: the search of download_video on the listing
FindTempVideo ==
    /\ arg.fn = "download_video"
    /\ ret = <<>>
    /\ ret' = Some(downloaded_file(arg.listing))
    /\ UNCHANGED <<arg, notFn>>

\* update_config(**kwargs), then get_config()
UpdateConfig ==
    /\ arg.fn = "update_config"
    /\ ret = <<>>
    /\ ret' = Some(update_config(arg.old, arg.kwargs))
    /\ UNCHANGED <<arg, notFn>>

\* process_local_file(file_path)
CallProcessLocal ==
    /\ arg.fn = "process_local_file"
    /\ ret = <<>>
    /\ ret' = Some(ProcessLocal(arg.fs, arg.file_path, arg.ok))
    /\ UNCHANGED <<arg, notFn>>

FnNext ==
    \/ ParseSrt
    \/ CallProcessLocal
    \/ UpdateConfig
    \/ FindDownloadedFile
    \/ FindTempVideo

FnSpec == FnInit /\ [][FnNext]_vars


(***************************************************************************)
(* Properties of the job registry                                          *)
(***************************************************************************)
Terminal == {"completed", "failed"}

HasStatus(job_id, status) ==
    /\ job_id \in DOMAIN transcription_jobs
    /\ transcription_jobs[job_id].status = status

\* C1: an accepted job enters the registry as "pending"; its status then
\* only moves pending -> processing -> completed or failed, never from
\* pending straight to a final status, never back, and a final status
\* never changes.
C1_StatusOrder ==
    [][ /\ \A j \in DOMAIN transcription_jobs' \ DOMAIN transcription_jobs :
              transcription_jobs'[j].status = "pending"
        /\ \A j \in DOMAIN transcription_jobs \cap DOMAIN transcription_jobs' :
              LET a == transcription_jobs[j].status
                  b == transcription_jobs'[j].status
              IN  \/ a = b
                  \/ a = "pending" /\ b = "processing"
                  \/ a = "processing" /\ b \in Terminal ]_vars

C1_Witness ==
    \E j, k \in DOMAIN transcription_jobs :
        /\ HasStatus(j, "completed") /\ tasks[j].kind = "url"
        /\ HasStatus(k, "failed") /\ tasks[k].kind = "file"

\* C2: when a step of a job's background task has raised, the task has ended,
\* the job is "failed", its message is the error's string, completed_at is
\* set, and result and download_url are empty.
C2_RaisedMeansFailed ==
    \A j \in DOMAIN tasks :
        tasks[j].raised # <<>> =>
            /\ tasks[j].pc = "done"
            /\ j \in DOMAIN transcription_jobs
            /\ LET job == transcription_jobs[j]
               IN  /\ job.status = "failed"
                   /\ job.message = tasks[j].raised[1]
                   /\ job.completed_at # <<>>
                   /\ job.result = <<>>
                   /\ job.download_url = <<>>

C2_Witness ==
    \E j, k \in DOMAIN tasks :
        /\ tasks[j].kind = "url" /\ tasks[j].raised = Some(E_WRITE)
        /\ tasks[k].kind = "file" /\ tasks[k].raised = Some(E_MODEL)

\* C3: a "completed" job has a result payload, the download link
\* "/download/<its own job id>" and a completion timestamp; a job with any
\* other status has no result payload and no download link.
C3_CompletedHasResult ==
    \A j \in DOMAIN transcription_jobs :
        LET job == transcription_jobs[j]
        IN  IF job.status = "completed"
            THEN /\ job.result # <<>>
                 /\ job.download_url = <<"/download/", j>>
                 /\ job.completed_at # <<>>
            ELSE /\ job.result = <<>>
                 /\ job.download_url = <<>>

C3_Witness ==
    \E j, k \in JobIds :
        /\ HasStatus(j, "completed")
        /\ transcription_jobs[j].result[1].language = "en"
        /\ HasStatus(k, "processing")

\* what a poll of job_id returns, when it is this status with this result
PollShows(job_id, status, result) ==
    LET r == get_job_status(job_id)
    IN  /\ r.code = 200
        /\ r.body[1].status = status
        /\ r.body[1].result # <<>>
        /\ r.body[1].result[1].text = result.text
        /\ r.body[1].result[1].language = result.language

\* C4: a submitted URL job's task eventually ends, and when none of its steps
\* has raised, a status poll then reports "completed" with a result carrying
\* the transcript text and the language Whisper returned.
C4_UrlJobCompletes ==
    \A j \in JobIds :
        (j \in DOMAIN tasks /\ tasks[j].kind = "url")
            ~> ( /\ j \in DOMAIN tasks
                 /\ tasks[j].pc = "done"
                 /\ tasks[j].raised = <<>> =>
                        PollShows(j, "completed", tasks[j].result[1]) )

C4_Witness ==
    \E j \in DOMAIN tasks :
        /\ tasks[j].kind = "url"
        /\ tasks[j].pc = "done"
        /\ tasks[j].raised = <<>>
        /\ tasks[j].result[1].language = "zh"
        /\ PollShows(j, "completed", tasks[j].result[1])

\* C5: for a completed job whose written result file still exists, the
\* download endpoint returns that file.
C5_DownloadServesWrittenFile ==
    \A j \in DOMAIN transcription_jobs :
        ( /\ transcription_jobs[j].status = "completed"
          /\ tasks[j].output_path # <<>>
          /\ tasks[j].output_path[1] \in files )
        => /\ download_result(j).code = 200
           /\ download_result(j).path = tasks[j].output_path[1]

\* the status values of the specification
StatusValues == {"pending", "processing", "completed", "failed"}

\* C6: the status every status endpoint of the repository returns for every
\* job id is one of pending, processing, completed, failed.
C6_StatusValues ==
    \A job_id \in JobIds \cup BJobIds :
        /\ get_status(job_id).status \in StatusValues
        /\ get_job_status(job_id).code = 200 =>
               get_job_status(job_id).body[1].status \in StatusValues

\* C7: a job in the registry is in the registry, and in the answer of the
\* list endpoint, after every step.
C7_NeverRemoved ==
    [][ \A j \in DOMAIN transcription_jobs :
            /\ j \in DOMAIN transcription_jobs'
            /\ \E job \in list_jobs'.body : job.job_id = j ]_vars

C7_Witness ==
    /\ Cardinality(DOMAIN transcription_jobs) = MaxJobs
    /\ config.log_level # DefaultConfig.log_level
    /\ \E j, k \in DOMAIN transcription_jobs :
          HasStatus(j, "completed") /\ HasStatus(k, "failed")

(***************************************************************************)
(* Properties of the functions applied on their own                        *)
(***************************************************************************)
\* the text bodies of the cues, markup stripped, in order
RECURSIVE PlainBodies(_, _)
PlainBodies(cues, i) ==
    IF i > Len(cues) THEN <<>>
    ELSE <<cues[i].body.plain>> \o PlainBodies(cues, i + 1)

\* C11: for a caption file of N numbered cues, parse_srt returns the N text
\* bodies in order, joined by a space, without the number and timestamp lines
\* and without inline markup; no body is dropped, also not a body of digits
\* only or the body of a cue without a timestamp line.
C11_ParseKeepsBodies ==
    (arg # <<>> /\ arg.fn = "parse_srt" /\ ret # <<>>)
        => ret[1] = Join(PlainBodies(arg.cues, 1), <<" ">>)

\* the entries of a listing that have a known media extension
Candidates(listing) ==
    { i \in 1..Len(listing) : HasVideoExtension(listing[i].name) }

\* C14: the downloader returns a file exactly when the directory holds a
\* candidate (a file with a known media extension) and raises otherwise; the
\* file is one named title + extension if there is one, else a candidate whose
\* name contains the title whatever the case, else a candidate that no other
\* candidate is more recent than.  The Flask downloader returns a file named
\* temp_video.* exactly when there is one.
C14_FindOrder ==
    /\ (arg # <<>> /\ arg.fn = "_find_downloaded_file" /\ ret # <<>>) =>
          LET l      == arg.listing
              exacts == { i \in Candidates(l) :
                            \E ext \in Range(VideoExtensions) :
                                l[i].name = arg.title \o <<".", ext>> }
              alikes == { i \in Candidates(l) :
                            Contains(lower(l[i].name), lower(arg.title)) }
          IN  IF Candidates(l) = {} THEN ret[1] = <<>>
              ELSE /\ ret[1] # <<>>
                   /\ \E i \in Candidates(l) :
                         /\ ret[1][1] = JoinPath(DownloadDir, l[i].name)
                         /\ IF exacts # {} THEN i \in exacts
                            ELSE IF alikes # {} THEN i \in alikes
                            ELSE \A j \in Candidates(l) : l[j].ctime <= l[i].ctime
    /\ (arg # <<>> /\ arg.fn = "download_video" /\ ret # <<>>) =>
          LET temps == { i \in 1..Len(arg.listing) :
                           arg.listing[i].name[1] = "temp_video" }
          IN  IF temps = {} THEN ret[1] = <<>>
              ELSE \E i \in temps : ret[1] = Some(arg.listing[i].name)

C14_Witness ==
    /\ arg # <<>> /\ arg.fn = "_find_downloaded_file" /\ ret # <<>>
    /\ arg.title = <<"c">>
    /\ Len(arg.listing) = 2
    /\ arg.listing[1].name = <<"a", ".", "mp4">>
    /\ arg.listing[2].name = <<"b", ".", "mov">>
    /\ arg.listing[1].ctime < arg.listing[2].ctime
    /\ ret[1] = Some(JoinPath(DownloadDir, <<"b", ".", "mov">>))

\* the temporary files the task of a job created: the uploaded file, the
\* downloaded video, the extracted audio
TempFiles(t) == { p \in {t.file_path, t.video_path, t.audio_path} : p # <<>> }

\* C16: once a job is completed or failed, os.remove has been called on every
\* temporary file its task created, whichever step the task ended at.
C16_TempFilesCleaned ==
    \A job_id \in DOMAIN tasks :
        transcription_jobs[job_id].status \in Terminal =>
            TempFiles(tasks[job_id]) \subseteq tasks[job_id].attempted

\* C20: at most one job of the API server is "processing" at a time.
C20_OneProcessing ==
    Cardinality({ job_id \in DOMAIN transcription_jobs :
                    transcription_jobs[job_id].status = "processing" }) <= 1

\* C18: in the Flask application a URL whose download, extraction or
\* transcription raised is not answered with success and the error message
\* as its text, and no result file holds the error message.
C18_FailureIsReported ==
    f_req # <<>> =>
        \A i \in DOMAIN f_req[1].pool :
            LET task == f_req[1].pool[i]
            IN  (task.run # <<>> /\ task.run[1].caught # <<>>) =>
                  LET msg      == ErrorText(task.run[1].caught[1])
                      response == f_req[1].response
                  IN  /\ (response # <<>> /\ response[1].code = 200) =>
                            IF f_req[1].type = "url"
                            THEN response[1].text # msg
                            ELSE response[1].results[task.url] # msg
                      /\ \A path \in DOMAIN f_files :
                            ~ Contains(f_files[path], msg)

\* C19: while process_multiple_urls runs, at most 3 of its tasks are
\* executing, however many URLs were submitted; the others wait in the queue.
C19_AtMostThreeExecuting ==
    f_req # <<>> =>
        Cardinality({ i \in DOMAIN f_req[1].pool :
                        f_req[1].pool[i].state = "running" }) <= 3

C19_Witness ==
    /\ f_req # <<>>
    /\ Len(f_req[1].pool) = 4
    /\ \A i \in 1..3 : f_req[1].pool[i].state = "running"
    /\ f_req[1].pool[4].state = "queued"

\* C21: after update_config, get_config() returns a configuration in which
\* every supplied setting reads back with the supplied value, and every
\* top-level setting the update does not name keeps its value.
C21_UpdateReadsBack ==
    (arg # <<>> /\ arg.fn = "update_config" /\ ret # <<>>) =>
        /\ \A k \in DOMAIN arg.kwargs :
              IF k = "transcription"
              THEN \A f \in DOMAIN arg.kwargs[k] :
                      /\ f \in DOMAIN ret[1][k]
                      /\ ret[1][k][f] = arg.kwargs[k][f]
              ELSE ret[1][k] = arg.kwargs[k]
        /\ \A k \in DOMAIN arg.old \ DOMAIN arg.kwargs : ret[1][k] = arg.old[k]

\* C22: process_local_file on a path that does not exist raises
\* FileNotFoundError, runs no conversion or extraction tool and creates no
\* file.
C22_MissingFileRaises ==
    (arg # <<>> /\ arg.fn = "process_local_file" /\ ret # <<>>
       /\ arg.file_path \notin arg.fs) =>
        /\ ret[1].raised = Some(E_FILE_NOT_FOUND)
        /\ ret[1].tools = <<>>
        /\ ret[1].files = arg.fs

C22_Witness ==
    /\ arg # <<>> /\ arg.fn = "process_local_file" /\ ret # <<>>
    /\ arg.file_path = JoinPath(<<"media">>, <<"clip", ".", "mp3">>)
    /\ arg.fs = { JoinPath(<<"media">>, <<"clip", ".", "mp4">>) }
    /\ ret[1].raised = Some(E_FILE_NOT_FOUND)

\* C30: for every input file, the conversion or extraction tool that
\* process_local_file runs gets an output path that is not its input path.
C30_OutputIsNotInput ==
    (arg # <<>> /\ arg.fn = "process_local_file" /\ ret # <<>>) =>
        \A i \in DOMAIN ret[1].tools :
            ret[1].tools[i].output # ret[1].tools[i].input

(***************************************************************************)
(* Properties of the file-based backend                                    *)
(***************************************************************************)
\* how often the task has invoked one of these tools or services
Invocations(t, names) == Len(SelectSeq(t.calls, LAMBDA c : c \in names))

C13_OneBackend ==
    \A j \in DOMAIN b_tasks :
        LET t      == b_tasks[j]
            chosen == IF t.use_openai_api THEN "openai" ELSE "local"
            other  == IF t.use_openai_api THEN "local" ELSE "openai"
        IN  /\ Invocations(t, {other}) = 0
            /\ Invocations(t, {chosen}) =
                   (IF t.audio_path # <<>> /\ t.pc # "whisper" THEN 1 ELSE 0)
            /\ t.raised # <<>> /\ t.raised[1] \in {E_NO_KEY, E_API, E_NO_LOCAL_MODEL, E_LOCAL}
                 => /\ t.text = <<>>
                    /\ t.pc = "done"
                    /\ t.raised[1] \in (IF t.use_openai_api THEN {E_NO_KEY, E_API}
                                        ELSE {E_NO_LOCAL_MODEL, E_LOCAL})
                    /\ ResultPath(j) \notin DOMAIN b_files

C13_Witness ==
    \E j \in DOMAIN b_tasks :
        /\ b_tasks[j].use_openai_api
        /\ b_tasks[j].raised = Some(E_NO_KEY)
        /\ Invocations(b_tasks[j], {"openai"}) = 1
        /\ get_status(j).status = "error"

\* the position in calls of the run of an external tool that exited nonzero
FailedRun(t) ==
    { i \in 1..Len(t.calls) : t.calls[i] = "exited nonzero" }

C17_CleanupNeverEscalates ==
    \A j \in DOMAIN b_tasks :
        /\ b_tasks[j].escaped # Some(E_REMOVE)
        /\ b_tasks[j].raised # Some(E_REMOVE)

\* C23: a job is not seen as "completed" in the registry of the API server,
\* nor as having a result by the status endpoint of the file-based backend,
\* before its output has been written in full.
C23_CompletedAfterWritten ==
    /\ \A job_id \in DOMAIN transcription_jobs :
          transcription_jobs[job_id].status = "completed" =>
              /\ tasks[job_id].output_path # <<>>
              /\ tasks[job_id].output_path[1] \in files
    /\ \A job_id \in DOMAIN b_tasks :
          get_status(job_id).status = "completed" =>
              /\ b_tasks[job_id].text # <<>>
              /\ get_status(job_id).text = b_tasks[job_id].text[1]

\* C28: once the task of a backend job has ended, exactly one of its result
\* file and its error file exists, and the status endpoint answers
\* "completed" only if no step raised and the result was written; a job whose
\* processing raised is answered neither "completed" nor "processing".
C28_OneOutcomeFile ==
    \A job_id \in DOMAIN b_tasks :
        LET t == b_tasks[job_id]
        IN  t.pc = "done" =>
              /\ (ResultPath(job_id) \in DOMAIN b_files)
                    # (ErrorPath(job_id) \in DOMAIN b_files)
              /\ get_status(job_id).status = "completed" =>
                    (t.raised = <<>> /\ t.escaped = <<>>)
              /\ t.raised # <<>> => get_status(job_id).status = "error"

\* C24: polling or downloading with a job id that is not in the registry is
\* answered 404, downloading a job that is pending, processing or failed is
\* answered 400, and these requests leave the registry, the tasks and the
\* files as they were.
C24_UnknownAndUnfinished ==
    /\ [](\A job_id \in JobIds :
            /\ job_id \notin DOMAIN transcription_jobs =>
                  /\ get_job_status(job_id).code = 404
                  /\ download_result(job_id).code = 404
            /\ (job_id \in DOMAIN transcription_jobs
                  /\ transcription_jobs[job_id].status
                        \in {"pending", "processing", "failed"}) =>
                  download_result(job_id).code = 400)
    /\ [][(\E job_id \in JobIds : GetJobStatus(job_id) \/ DownloadResult(job_id))
            => UNCHANGED <<transcription_jobs, tasks, files>>]_vars

C24_Witness ==
    /\ HasStatus("id-a", "failed")
    /\ HasStatus("id-b", "processing")
    /\ "id-c" \notin DOMAIN transcription_jobs
    /\ download_result("id-a").code = 400
    /\ get_job_status("id-c").code = 404

\* the batch request has been answered with the results of process_multiple_urls
BatchAnswered ==
    /\ f_req # <<>>
    /\ f_req[1].type = "multiple_urls"
    /\ f_req[1].response # <<>>
    /\ f_req[1].response[1].code = 200

\* C25: process_multiple_urls returns only after every submitted task has
\* finished; its result has one entry for every distinct submitted URL, which
\* is the outcome of a run of that URL (its transcript, or the message of the
\* failure of that run or of saving its text); a failing URL leaves the other
\* URLs processed.
C25_EveryUrlItsOwnOutcome ==
    BatchAnswered =>
        LET pool    == f_req[1].pool
            results == f_req[1].response[1].results
        IN  /\ \A i \in DOMAIN pool : pool[i].state = "collected" /\ pool[i].run # <<>>
            /\ DOMAIN results = { pool[i].url : i \in DOMAIN pool }
            /\ \A url \in DOMAIN results :
                  \E i \in DOMAIN pool :
                      /\ pool[i].url = url
                      /\ \/ results[url] = <<"words of ">> \o url
                            /\ pool[i].run[1].caught = <<>>
                            /\ pool[i].run[1].raised = <<>>
                         \/ /\ pool[i].run[1].caught # <<>>
                            /\ results[url] = <<"error: ", pool[i].run[1].caught[1]>>
                         \/ /\ pool[i].run[1].raised # <<>>
                            /\ results[url] = <<"error: ", pool[i].run[1].raised[1]>>
                         \/ /\ pool[i].run[1].raised = <<>>
                            /\ results[url] = <<"error: ", E_NO_SPACE>>

C25_Witness ==
    /\ BatchAnswered
    /\ Len(f_req[1].pool) = 2
    /\ f_req[1].pool[1].run[1].caught = Some(E_YTDLP)
    /\ f_req[1].response[1].results[<<"v", "/", "1">>] = <<"error: ", E_YTDLP>>
    /\ f_req[1].response[1].results[<<"v", "2">>] = <<"words of ", "v", "2">>

\* C26: two URL jobs of the API server never work on the same video file or
\* the same audio file of the download directory: a job transcribes what it
\* downloaded itself, and removes no file of another job.
C26_JobsKeepOwnFiles ==
    \A j, k \in DOMAIN tasks :
        (j # k /\ tasks[j].kind = "url" /\ tasks[k].kind = "url") =>
            /\ tasks[j].video_path # <<>> => tasks[j].video_path # tasks[k].video_path
            /\ tasks[j].audio_path # <<>> => tasks[j].audio_path # tasks[k].audio_path

\* C27: the registry entry of a job changes only in a step of that job's own
\* background task: no task changes the entry of another job, and accepting a
\* request leaves every existing entry as it is.
C27_OnlyOwnTaskWrites ==
    [][ \A j \in DOMAIN transcription_jobs :
            (j \notin DOMAIN transcription_jobs'
               \/ transcription_jobs'[j] # transcription_jobs[j]) => TaskStep(j) ]_vars

C27_Witness ==
    /\ HasStatus("id-a", "processing")
    /\ transcription_jobs["id-a"].message = "Transcribing audio..."
    /\ HasStatus("id-b", "completed")
    /\ tasks["id-b"].kind = "url"

\* C29: an upload that cannot be saved is answered 500 and adds neither a
\* registry entry nor a background task: an entry for a file job appears only
\* in a step that saved its upload, and every entry has its task.
C29_FailedUploadLeavesNoJob ==
    /\ [](/\ \A job_id \in JobIds : transcribe_file_response(job_id, FALSE).code = 500
          /\ DOMAIN tasks = DOMAIN transcription_jobs)
    /\ [][ \A j \in DOMAIN transcription_jobs' \ DOMAIN transcription_jobs :
              tasks'[j].kind = "file" =>
                  /\ tasks'[j].file_path \notin files
                  /\ tasks'[j].file_path \in files' ]_vars

C29_Witness ==
    /\ Cardinality(DOMAIN transcription_jobs) = 1
    /\ \E j \in DOMAIN tasks :
          /\ tasks[j].kind = "file"
          /\ tasks[j].pc = "queued"
          /\ tasks[j].file_path \in files
          /\ transcription_jobs[j].message = "File uploaded"

====
